---- MODULE Spec2Model ----
(***************************************************************************)
(* VVAuthService (src/src/services/auth/vv/VVAuthService.ts): the OAuth2   *)
(* PKCE login service of the extension, as a state machine.                *)
(*                                                                         *)
(* The runtime is single-threaded and cooperative: an async method runs    *)
(* without interruption up to its next await of real I/O (a provider call, *)
(* a flushPendingState, openExternal) and is resumed later with the        *)
(* outcome of that I/O.  Each action below is one such uninterrupted run:  *)
(* the start of a method up to its first await, or the resumption after an *)
(* await up to the next one (or to the return / throw).                    *)
(*                                                                         *)
(* Absent values: "" for an undefined string, 0 for an undefined session   *)
(* token, NoGroupConfig for an undefined vvGroupConfig.  All three are     *)
(* falsy in the source's tests (!x), as "" and 0 are here.                 *)
(***************************************************************************)
EXTENDS Integers, Sequences, FiniteSets, TLC

\* Number of createAuthRequest calls explored (each draws a fresh state).
MaxSessions == 2
\* Number of handleAuthCallback invocations that can be pending at once.
MaxInv == 2
\* Number of subscription objects ever created.
MaxSubs == 2
\* Number of calls of the service's methods explored in one run.
MaxCalls == 3

SessionIds == 1..MaxSessions
Inv == 1..MaxInv
Sub == 1..MaxSubs

\* Authorization codes the host may deliver (delivery may be duplicated).
Codes == {"c1", "c2"}
\* Accounts the authorization server may answer with.
Users == {"u1"}
\* Group types asked of switchGroup ("x" is a type no list contains).
GroupTypes == {"a", "b", "x"}
\* How one I/O operation ends.
IoOutcomes == {"ok", "fail"}
\* How one responseStream call ends: resolves, rejects later, throws at once.
DeliveryOutcomes == {"ok", "reject", "throw"}
\* Messages of a failing provider call: one carries the 429 marker.
ProviderErrors == {"Network Error", "429 Too Many Requests"}

VARIABLES
    gs,                     \* stateManager global-state cache
    secrets,                \* stateManager secrets
    disk,                   \* controller.context.globalState (the session keys)
    isDev,                  \* process.env.IS_DEV === "true"
    nextSession,            \* number of the next generateState() value
    processingAuthCallback, \* _processingAuthCallback
    lastProcessedCode,      \* _lastProcessedCode ("" for null)
    authenticated,          \* _authenticated
    subStatus,              \* each subscription object: unused, active (in the
                            \* set, caller holds the cancel function), orphan (in
                            \* the set, subscribe threw), cancelled, removed
    pendingReject,          \* broadcasts whose promise rejected, .catch not yet run
    cb,                     \* the handleAuthCallback invocations
    car,                    \* the createAuthRequest call in flight
    da,                     \* the handleDeauth call in flight
    sg,                     \* the switchGroup call in flight
    rg,                     \* the refreshGroupConfig call in flight
    exchangeCalls,          \* calls of provider.exchangeCodeForToken, per code
    calls,                  \* method calls made so far
    ret,                    \* what the last step returned or threw to its caller
    outbox,                 \* responseStream calls made by the last step
    cfg,                    \* the config fetcher (src/unnamed/part_000): its cache,
                            \* its getDynamicConfig calls in flight, its last result
    hook                    \* one mounted useDebouncedInput: state, refs, timer

vars == <<gs, secrets, disk, isDev, nextSession, processingAuthCallback,
          lastProcessedCode, authenticated, subStatus, pendingReject,
          cb, car, da, sg, rg, exchangeCalls, calls, ret, outbox, cfg, hook>>

\* The auth service's part of the state.
serviceVars == <<gs, secrets, disk, isDev, nextSession, processingAuthCallback,
                 lastProcessedCode, authenticated, subStatus, pendingReject,
                 cb, car, da, sg, rg, exchangeCalls, calls, ret, outbox>>

(***************************************************************************)
(* Data                                                                    *)
(***************************************************************************)

\* VVGroupItem
GroupItem(t, k, m, u, d) ==
    [type |-> t, apiKey |-> k, defaultModelId |-> m, apiBaseUrl |-> u, isDefault |-> d]

\* Lists the provider's getGroupTokens may return.  The service validates
\* nothing, so the lists cover: none, one default, no default with a
\* repeated type, two defaults of which the first has no key, an item
\* without a base URL.
GroupResponses ==
    { <<>>,
      <<GroupItem("a", "ka", "ma", "ua", TRUE), GroupItem("b", "kb", "mb", "", FALSE)>>,
      <<GroupItem("a", "ka", "ma", "ua", FALSE), GroupItem("a", "ka2", "ma2", "ua2", FALSE)>>,
      <<GroupItem("b", "", "mb", "ub", TRUE), GroupItem("a", "ka", "ma", "ua", TRUE)>> }

NoGroupConfig == [present |-> FALSE, items |-> <<>>]
SomeGroupConfig(items) == [present |-> TRUE, items |-> items]

\* development base URL (process.env.DEV_BASE_URL || "http://127.0.0.1:3000")
devBaseUrl == "dev"

\* VVAuthInfo returned by the token exchange for account u
AccessTokenOf(u) == u
UserIdOf(u) == u

\* What a call hands to its caller: the operation, how it ended ("ok" or the
\* error raised), the failure that caused the error, the state in a returned URL.
NoRet == [op |-> "", result |-> "", cause |-> "", val |-> 0]
Ret(op, result, cause) == [op |-> op, result |-> result, cause |-> cause, val |-> 0]
NoSends == [s \in Sub |-> <<>>]

\* A handleAuthCallback invocation: where it is suspended, its parameters
\* code and state, its locals storedState, authInfo (the account) and
\* groupConfig, and the error its try block threw.
IdleCb == [pc |-> "idle", code |-> "", state |-> 0, storedState |-> 0, user |-> "",
           groupConfig |-> NoGroupConfig, err |-> ""]
IdleCar == [pc |-> "idle", state |-> 0]
IdleDa == [pc |-> "idle"]
IdleSg == [pc |-> "idle", groupType |-> ""]
IdleRg == [pc |-> "idle", cfg |-> NoGroupConfig]

\* Array.prototype.find, given the indices of the elements that satisfy the
\* predicate: the first of them, 0 when there is none (undefined)
FindIndex(hits) ==
    IF hits = {} THEN 0 ELSE CHOOSE i \in hits : \A j \in hits : i <= j

(***************************************************************************)
(* Storage                                                                 *)
(***************************************************************************)

\* stateManager.flushPendingState(), returning normally: what the cache holds
\* is durable, so the secondary read path sees it.
flushPendingState(g) == [authState |-> g.authState, codeVerifier |-> g.codeVerifier]

\* Mutant: the code verifier is left in the cache.
ClearSession_StateOnly(g) == [g EXCEPT !.authState = 0]

\* setGlobalState("vv:authState", undefined); setGlobalState("vv:codeVerifier", undefined)
ClearSession(g) == [g EXCEPT !.authState = 0, !.codeVerifier = 0]

(***************************************************************************)
(* Config fetcher data (src/unnamed/part_000)                              *)
(***************************************************************************)

\* Calls of getDynamicConfig that can be suspended in the fetch at once.
MaxFetches == 3
FetchSlots == 1..MaxFetches

\* DynamicConfigResponse bodies the endpoint may send: without the
\* anthropic section, with both fields, with the API key only.
ConfigBodies ==
    { [anthropic |-> FALSE, apiKey |-> "", baseUrl |-> ""],
      [anthropic |-> TRUE, apiKey |-> "k1", baseUrl |-> "b1"],
      [anthropic |-> TRUE, apiKey |-> "k2", baseUrl |-> ""] }
\* How axios.get ends: status 200 with a body, a response that is not
\* status 200 with a body, or a rejection.
FetchOutcomes ==
    [kind : {"ok"}, body : ConfigBodies]
        \cup {[kind |-> k, body |-> [anthropic |-> FALSE, apiKey |-> "", baseUrl |-> ""]] :
                  k \in {"invalid", "error"}}

\* null, for the remote config and for the cache
NullConfig == [isNull |-> TRUE, anthropic |-> FALSE, apiKey |-> "", baseUrl |-> ""]

\* let cachedConfig = null (line 77); no call in flight; nothing returned yet
ConfigInit ==
    [cachedConfig |-> NullConfig,
     fetching |-> [j \in FetchSlots |-> FALSE],
     calledSinceClear |-> FALSE,
     op |-> "", fetched |-> FALSE, out |-> NullConfig]

(***************************************************************************)
(* useDebouncedInput data                                                  *)
(* (src/webview-ui/src/components/settings/utils/useDebouncedInput.ts)     *)
(***************************************************************************)

\* Values of the input (the API key field of part_001): empty and two keys.
InputValues == {"", "v1", "v2"}

\* No component that uses the hook is mounted.  userSet (the values passed
\* to the setter since the last external change) and saved (the onChange
\* calls of the last step) record what the hook did; it does not read them.
HookUnmounted ==
    [mounted |-> FALSE, localValue |-> "", lastExternalValue |-> "", userChanged |-> FALSE,
     timer |-> FALSE, userSet |-> {}, op |-> "", saved |-> <<>>]

Init ==
    /\ gs = [authState |-> 0, codeVerifier |-> 0, vvUserInfo |-> "", vvUserConfig |-> "",
             vvGroupConfig |-> NoGroupConfig, planModeApiModelId |-> "",
             actModeApiModelId |-> "", anthropicBaseUrl |-> ""]
    /\ secrets = [accessToken |-> "", userId |-> "", refreshToken |-> "", apiKey |-> ""]
    /\ disk = [authState |-> 0, codeVerifier |-> 0]
    /\ isDev \in BOOLEAN
    /\ nextSession = 1
    /\ processingAuthCallback = FALSE
    /\ lastProcessedCode = ""
    /\ authenticated = FALSE
    /\ subStatus = [s \in Sub |-> "unused"]
    /\ pendingReject = {}
    /\ cb = [i \in Inv |-> IdleCb]
    /\ car = IdleCar
    /\ da = IdleDa
    /\ sg = IdleSg
    /\ rg = IdleRg
    /\ exchangeCalls = [c \in Codes |-> 0]
    /\ calls = 0
    /\ ret = NoRet
    /\ outbox = NoSends
    /\ cfg = ConfigInit
    /\ hook = HookUnmounted

\* One more call of a method of the service is made; the service touches
\* neither the config fetcher nor the settings view.
NewCall == calls < MaxCalls /\ calls' = calls + 1 /\ UNCHANGED <<cfg, hook>>
\* A call already made goes on.
SameCall == UNCHANGED <<calls, cfg, hook>>

(***************************************************************************)
(* Status subscriptions                                                    *)
(***************************************************************************)

\* _activeAuthStatusUpdateSubscriptions
ActiveSubs == {s \in Sub : subStatus[s] \in {"active", "orphan"}}

\* Mutant: the status carries no user.
getInfo_NoUser(g) == ""

\* get isAuthenticated(): !!getSecretKey("vv:accessToken")
isAuthenticated(sec) == sec.accessToken # ""

\* getInfo(): { user: vvUserInfo || undefined }
getInfo(g) == g.vvUserInfo

\* Mutant: only the first subscription of the set is sent the status.
sendAuthStatusUpdate_FirstOnly(g, o) ==
    /\ outbox' = [s \in Sub |-> IF s \in ActiveSubs /\ \A r \in ActiveSubs : s <= r
                                THEN <<getInfo(g)>> ELSE <<>>]
    /\ subStatus' = [s \in Sub |->
            IF s \in ActiveSubs /\ o[s] = "throw" THEN "removed" ELSE subStatus[s]]
    /\ pendingReject' = pendingReject \cup {s \in ActiveSubs : o[s] = "reject"}

\* Mutant: no try/catch around the call, so a synchronous throw ends the loop.
sendAuthStatusUpdate_StopAtThrow(g, o) ==
    LET Reached(s) == s \in ActiveSubs /\ \A r \in ActiveSubs : r < s => o[r] # "throw"
    IN  /\ outbox' = [s \in Sub |-> IF Reached(s) THEN <<getInfo(g)>> ELSE <<>>]
        /\ subStatus' = [s \in Sub |->
                IF Reached(s) /\ o[s] = "throw" THEN "removed" ELSE subStatus[s]]
        /\ pendingReject' = pendingReject \cup {s \in ActiveSubs : Reached(s) /\ o[s] = "reject"}

\* sendAuthStatusUpdate(): one responseStream call per subscription in the
\* set; a synchronous throw deletes the subscription at once, a rejection
\* deletes it when the .catch handler runs (HandleReject).
sendAuthStatusUpdate(g, o) ==
    /\ outbox' = [s \in Sub |-> IF s \in ActiveSubs THEN <<getInfo(g)>> ELSE <<>>]
    /\ subStatus' = [s \in Sub |->
            IF s \in ActiveSubs /\ o[s] = "throw" THEN "removed" ELSE subStatus[s]]
    /\ pendingReject' = pendingReject \cup {s \in ActiveSubs : o[s] = "reject"}

NoBroadcast ==
    /\ outbox' = NoSends
    /\ UNCHANGED <<subStatus, pendingReject>>

\* subscribeToAuthStatusUpdate(): add, send the current status once.  A
\* rejection of that first send is only logged; a synchronous throw leaves
\* the subscription in the set and returns no cancel function.
subscribeToAuthStatusUpdate(s, o) ==
    /\ NewCall
    /\ subStatus[s] = "unused"
    /\ \A r \in Sub : r < s => subStatus[r] # "unused"
    /\ subStatus' = [subStatus EXCEPT ![s] = IF o = "throw" THEN "orphan" ELSE "active"]
    /\ outbox' = [NoSends EXCEPT ![s] = <<getInfo(gs)>>]
    /\ ret' = Ret("subscribe", IF o = "throw" THEN "StreamError" ELSE "ok", "")
    /\ UNCHANGED <<gs, secrets, disk, isDev, nextSession, processingAuthCallback,
                   lastProcessedCode, authenticated, pendingReject, cb, car, da, sg, rg,
                   exchangeCalls>>

\* the function subscribe returned: delete the subscription from the set
Unsubscribe(s) ==
    /\ SameCall
    /\ subStatus[s] = "active"
    /\ subStatus' = [subStatus EXCEPT ![s] = "cancelled"]
    /\ outbox' = NoSends
    /\ ret' = NoRet
    /\ UNCHANGED <<gs, secrets, disk, isDev, nextSession, processingAuthCallback,
                   lastProcessedCode, authenticated, pendingReject, cb, car, da, sg, rg,
                   exchangeCalls>>

\* the .catch handler of a broadcast's responseStream promise
HandleReject(s) ==
    /\ SameCall
    /\ s \in pendingReject
    /\ pendingReject' = pendingReject \ {s}
    /\ subStatus' = [subStatus EXCEPT ![s] = IF @ \in {"active", "orphan"} THEN "removed" ELSE @]
    /\ outbox' = NoSends
    /\ ret' = NoRet
    /\ UNCHANGED <<gs, secrets, disk, isDev, nextSession, processingAuthCallback,
                   lastProcessedCode, authenticated, cb, car, da, sg, rg, exchangeCalls>>

(***************************************************************************)
(* Crypto helpers (@/shared/vv-crypto)                                     *)
(***************************************************************************)

\* generateState(): a fresh random token, never one drawn before
generateState == nextSession
\* generateCodeVerifier(): a fresh random verifier
generateCodeVerifier == nextSession

(***************************************************************************)
(* createAuthRequest                                                       *)
(***************************************************************************)

\* lines 132-144: draw state and verifier, write both, call flushPendingState
CarStart ==
    /\ NewCall
    /\ car.pc = "idle"
    /\ nextSession <= MaxSessions
    /\ gs' = [gs EXCEPT !.authState = generateState, !.codeVerifier = generateCodeVerifier]
    /\ car' = [pc |-> "flush", state |-> generateState]
    /\ nextSession' = nextSession + 1
    /\ ret' = NoRet
    /\ NoBroadcast
    /\ UNCHANGED <<secrets, disk, isDev, processingAuthCallback, lastProcessedCode,
                   authenticated, cb, da, sg, rg, exchangeCalls>>

\* Mutant: the keys are not read back after the flush.
CarFlushed_NoReadBack(o) ==
    /\ SameCall
    /\ car.pc = "flush"
    /\ IF o = "fail"
       THEN /\ car' = IdleCar
            /\ ret' = Ret("createAuthRequest", "FlushError", "")
            /\ UNCHANGED disk
       ELSE /\ disk' = flushPendingState(gs)
            /\ car' = [car EXCEPT !.pc = "open"]
            /\ ret' = NoRet
    /\ NoBroadcast
    /\ UNCHANGED <<gs, secrets, isDev, nextSession, processingAuthCallback,
                   lastProcessedCode, authenticated, cb, da, sg, rg, exchangeCalls>>

\* lines 144-164: the flush returns; read both keys back; call openExternal
CarFlushed(o) ==
    /\ SameCall
    /\ car.pc = "flush"
    /\ IF o = "fail"
       THEN /\ car' = IdleCar
            /\ ret' = Ret("createAuthRequest", "FlushError", "")
            /\ UNCHANGED disk
       ELSE /\ disk' = flushPendingState(gs)
            /\ IF gs.authState = 0 \/ gs.codeVerifier = 0
               THEN /\ car' = IdleCar
                    /\ ret' = Ret("createAuthRequest", "SaveFailed", "")
               ELSE /\ car' = [car EXCEPT !.pc = "open"]
                    /\ ret' = NoRet
    /\ NoBroadcast
    /\ UNCHANGED <<gs, secrets, isDev, nextSession, processingAuthCallback,
                   lastProcessedCode, authenticated, cb, da, sg, rg, exchangeCalls>>

\* lines 164-166: openExternal returns; return the URL (it embeds the state)
CarOpened(o) ==
    /\ SameCall
    /\ car.pc = "open"
    /\ car' = IdleCar
    /\ ret' = IF o = "fail"
              THEN Ret("createAuthRequest", "OpenError", "")
              ELSE [Ret("createAuthRequest", "ok", "") EXCEPT !.val = car.state]
    /\ NoBroadcast
    /\ UNCHANGED <<gs, secrets, disk, isDev, nextSession, processingAuthCallback,
                   lastProcessedCode, authenticated, cb, da, sg, rg, exchangeCalls>>

(***************************************************************************)
(* applyGroupConfig                                                        *)
(***************************************************************************)

\* lines 437: setSecret("apiKey", group.apiKey)
applyGroupSecrets(sec, group) == [sec EXCEPT !.apiKey = group.apiKey]

\* lines 440-447: both model ids; the base URL only when it is truthy, and
\* the development URL instead of the group's when IS_DEV is set
applyGroupSettings(g, group) ==
    LET baseUrl == IF isDev THEN devBaseUrl ELSE group.apiBaseUrl
    IN  [g EXCEPT !.planModeApiModelId = group.defaultModelId,
                  !.actModeApiModelId = group.defaultModelId,
                  !.anthropicBaseUrl = IF baseUrl # "" THEN baseUrl ELSE @]

(***************************************************************************)
(* handleAuthCallback                                                      *)
(***************************************************************************)

\* Mutant: the processing flag is not tested.
AlreadyProcessing_Never == FALSE

\* line 178: if (this._processingAuthCallback) return
AlreadyProcessing == processingAuthCallback

\* Mutant: the last processed code is not tested.
IsLastProcessedCode_Never(code) == FALSE

\* line 182: if (this._lastProcessedCode === code) return
IsLastProcessedCode(code) == lastProcessedCode = code

\* Mutant: the state is read from the cache only.
StoredState_CacheOnly == gs.authState

\* lines 190-195, 208-211: the cache first, the extension context second
StoredState == IF gs.authState # 0 THEN gs.authState ELSE disk.authState
StoredVerifier == IF gs.codeVerifier # 0 THEN gs.codeVerifier ELSE disk.codeVerifier

\* line 270: the message carries "Too Many Requests" or "429"
IsRateLimitMessage(msg) == msg = "429 Too Many Requests"

\* lines 197-214: the error the session checks throw, "" when they pass
SessionCheck(state) ==
    IF StoredState = 0 THEN "Authentication state not found"
    ELSE IF state # StoredState THEN "Invalid state parameter"
    ELSE IF StoredVerifier = 0 THEN "Code verifier not found"
    ELSE ""

\* provider.exchangeCodeForToken is called once more for this code (the
\* count saturates at ExchangeCap)
ExchangeCap == 2
CountExchange(code) ==
    [exchangeCalls EXCEPT ![code] = IF @ < ExchangeCap THEN @ + 1 ELSE @]

\* lines 263-267: the catch block up to its await: both session keys are
\* deleted from the cache and flushPendingState is called
EnterCatch(i, r, g, msg) ==
    /\ gs' = ClearSession(g)
    /\ cb' = [cb EXCEPT ![i] = [r EXCEPT !.pc = "catchFlush", !.err = msg]]

\* A call takes the first free invocation record.
FreeInv(i) == cb[i].pc = "idle" /\ \A j \in Inv : j < i => cb[j].pc # "idle"

\* Mutant: the guards sit inside the try block, so the finally block resets
\* the flag when a call is dropped.
CbDropped_ReleasesFlag(code, state) ==
    /\ NewCall
    /\ AlreadyProcessing \/ IsLastProcessedCode(code)
    /\ processingAuthCallback' = FALSE
    /\ ret' = Ret("handleAuthCallback", "dropped",
                  IF AlreadyProcessing THEN "processing" ELSE "duplicate")
    /\ NoBroadcast
    /\ UNCHANGED <<gs, secrets, disk, isDev, nextSession,
                   lastProcessedCode, authenticated, cb, car, da, sg, rg, exchangeCalls>>

\* lines 174-184: a call dropped by one of the two guards returns at once
CbDropped(code, state) ==
    /\ NewCall
    /\ AlreadyProcessing \/ IsLastProcessedCode(code)
    /\ ret' = Ret("handleAuthCallback", "dropped",
                  IF AlreadyProcessing THEN "processing" ELSE "duplicate")
    /\ NoBroadcast
    /\ UNCHANGED <<gs, secrets, disk, isDev, nextSession, processingAuthCallback,
                   lastProcessedCode, authenticated, cb, car, da, sg, rg, exchangeCalls>>

\* lines 174-217: past the guards: set the flag, check the session, call
\* exchangeCodeForToken (or throw into the catch block)
CbStart(i, code, state) ==
    /\ NewCall
    /\ FreeInv(i)
    /\ ~AlreadyProcessing
    /\ ~IsLastProcessedCode(code)
    /\ processingAuthCallback' = TRUE
    /\ IF SessionCheck(state) # ""
       THEN /\ EnterCatch(i, [IdleCb EXCEPT !.code = code, !.state = state,
                                            !.storedState = StoredState],
                          gs, SessionCheck(state))
            /\ UNCHANGED exchangeCalls
       ELSE /\ cb' = [cb EXCEPT ![i] = [IdleCb EXCEPT !.pc = "exchange", !.code = code,
                                                     !.state = state,
                                                     !.storedState = StoredState]]
            /\ exchangeCalls' = CountExchange(code)
            /\ UNCHANGED gs
    /\ ret' = NoRet
    /\ NoBroadcast
    /\ UNCHANGED <<secrets, disk, isDev, nextSession, lastProcessedCode,
                   authenticated, car, da, sg, rg>>

\* lines 217-224: the exchange returns: store token and user id, call
\* getUserInfo; or it throws
CbExchanged(i, o, u, msg) ==
    /\ SameCall
    /\ cb[i].pc = "exchange"
    /\ IF o = "ok"
       THEN /\ secrets' = [secrets EXCEPT !.accessToken = AccessTokenOf(u),
                                          !.userId = UserIdOf(u)]
            /\ cb' = [cb EXCEPT ![i].pc = "userInfo", ![i].user = u]
            /\ UNCHANGED gs
       ELSE /\ EnterCatch(i, cb[i], gs, msg)
            /\ UNCHANGED secrets
    /\ ret' = NoRet
    /\ NoBroadcast
    /\ UNCHANGED <<disk, isDev, nextSession, processingAuthCallback, lastProcessedCode,
                   authenticated, car, da, sg, rg, exchangeCalls>>

\* lines 224-229: getUserInfo returns: store it, call getUserConfig; or it throws
CbUserInfo(i, o, msg) ==
    /\ SameCall
    /\ cb[i].pc = "userInfo"
    /\ IF o = "ok"
       THEN /\ gs' = [gs EXCEPT !.vvUserInfo = cb[i].user]
            /\ cb' = [cb EXCEPT ![i].pc = "userConfig"]
       ELSE EnterCatch(i, cb[i], gs, msg)
    /\ ret' = NoRet
    /\ NoBroadcast
    /\ UNCHANGED <<secrets, disk, isDev, nextSession, processingAuthCallback,
                   lastProcessedCode, authenticated, car, da, sg, rg, exchangeCalls>>

\* Mutant: no try/catch around the user-config fetch.
CbUserConfig_FailurePropagates(i, o) ==
    /\ SameCall
    /\ cb[i].pc = "userConfig"
    /\ IF o = "ok"
       THEN /\ gs' = [gs EXCEPT !.vvUserConfig = cb[i].user]
            /\ cb' = [cb EXCEPT ![i].pc = "groupTokens"]
       ELSE EnterCatch(i, cb[i], gs, "Network Error")
    /\ ret' = NoRet
    /\ NoBroadcast
    /\ UNCHANGED <<secrets, disk, isDev, nextSession, processingAuthCallback,
                   lastProcessedCode, authenticated, car, da, sg, rg, exchangeCalls>>

\* lines 228-237: getUserConfig returns and is stored, or throws and is
\* logged; either way getGroupTokens is called
CbUserConfig(i, o) ==
    /\ SameCall
    /\ cb[i].pc = "userConfig"
    /\ gs' = IF o = "ok" THEN [gs EXCEPT !.vvUserConfig = cb[i].user] ELSE gs
    /\ cb' = [cb EXCEPT ![i].pc = "groupTokens"]
    /\ ret' = NoRet
    /\ NoBroadcast
    /\ UNCHANGED <<secrets, disk, isDev, nextSession, processingAuthCallback,
                   lastProcessedCode, authenticated, car, da, sg, rg, exchangeCalls>>

\* Mutant: the last default item is taken, not the first.
DefaultGroupIndex_Last(items) ==
    LET hits == {k \in 1..Len(items) : items[k].isDefault}
    IN  IF hits = {} THEN 0 ELSE CHOOSE k \in hits : \A j \in hits : j <= k

\* line 241: groupConfig.find((g) => g.isDefault)
IsDefaultItem(g) == g.isDefault
DefaultGroupIndex(items) == FindIndex({k \in 1..Len(items) : IsDefaultItem(items[k])})

\* lines 237-250: getGroupTokens returns: store the list and apply its
\* default group if that has a key (up to the flush in applyGroupConfig);
\* or it throws and is logged; then flushPendingState is called
CbGroupTokens(i, o, items) ==
    /\ SameCall
    /\ cb[i].pc = "groupTokens"
    /\ IF o = "ok"
       THEN LET d == DefaultGroupIndex(items)
                g1 == [gs EXCEPT !.vvGroupConfig = SomeGroupConfig(items)]
            IN  IF d # 0 /\ items[d].apiKey # ""
                THEN /\ secrets' = applyGroupSecrets(secrets, items[d])
                     /\ gs' = applyGroupSettings(g1, items[d])
                     /\ cb' = [cb EXCEPT ![i].pc = "applyFlush",
                                         ![i].groupConfig = SomeGroupConfig(items)]
                ELSE /\ gs' = g1
                     /\ cb' = [cb EXCEPT ![i].pc = "flush1",
                                         ![i].groupConfig = SomeGroupConfig(items)]
                     /\ UNCHANGED secrets
       ELSE /\ cb' = [cb EXCEPT ![i].pc = "flush1"]
            /\ UNCHANGED <<gs, secrets>>
    /\ ret' = NoRet
    /\ NoBroadcast
    /\ UNCHANGED <<disk, isDev, nextSession, processingAuthCallback, lastProcessedCode,
                   authenticated, car, da, sg, rg, exchangeCalls>>

\* lines 243-250, 450: the flush inside applyGroupConfig returns, or throws
\* and is logged by the group-config try; then flushPendingState is called
CbApplyFlushed(i, o) ==
    /\ SameCall
    /\ cb[i].pc = "applyFlush"
    /\ disk' = IF o = "ok" THEN flushPendingState(gs) ELSE disk
    /\ cb' = [cb EXCEPT ![i].pc = "flush1"]
    /\ ret' = NoRet
    /\ NoBroadcast
    /\ UNCHANGED <<gs, secrets, isDev, nextSession, processingAuthCallback,
                   lastProcessedCode, authenticated, car, da, sg, rg, exchangeCalls>>

\* lines 250-255: the flush of the user data returns: delete the session
\* keys and flush again; or it throws
CbFlush1(i, o) ==
    /\ SameCall
    /\ cb[i].pc = "flush1"
    /\ IF o = "ok"
       THEN /\ disk' = flushPendingState(gs)
            /\ gs' = ClearSession(gs)
            /\ cb' = [cb EXCEPT ![i].pc = "flush2"]
       ELSE /\ EnterCatch(i, cb[i], gs, "Flush failed")
            /\ UNCHANGED disk
    /\ ret' = NoRet
    /\ NoBroadcast
    /\ UNCHANGED <<secrets, isDev, nextSession, processingAuthCallback,
                   lastProcessedCode, authenticated, car, da, sg, rg, exchangeCalls>>

\* Mutant: the flag is reset at the end of the try block, not in a finally.
ReleaseFlag_OnReturnOnly(thrown) == thrown

\* lines 275-277: finally { this._processingAuthCallback = false }, on return
\* and on throw alike
ReleaseFlag(thrown) == FALSE

\* Every way the subscribed streams may answer one broadcast.
BroadcastOutcomes ==
    {o \in [Sub -> DeliveryOutcomes] : \A s \in Sub \ ActiveSubs : o[s] = "ok"}

\* lines 255-262, 276: the flush of the deletion returns: record the code,
\* broadcast, release the flag; or it throws
CbFlush2(i, o, d) ==
    /\ SameCall
    /\ cb[i].pc = "flush2"
    /\ IF o = "ok"
       THEN /\ disk' = flushPendingState(gs)
            /\ lastProcessedCode' = cb[i].code
            /\ authenticated' = TRUE
            /\ sendAuthStatusUpdate(gs, d)
            /\ processingAuthCallback' = ReleaseFlag(FALSE)
            /\ cb' = [cb EXCEPT ![i] = IdleCb]
            /\ ret' = Ret("handleAuthCallback", "ok", "")
            /\ UNCHANGED gs
       ELSE /\ EnterCatch(i, cb[i], gs, "Flush failed")
            /\ ret' = NoRet
            /\ NoBroadcast
            /\ UNCHANGED <<disk, lastProcessedCode, authenticated, processingAuthCallback>>
    /\ UNCHANGED <<secrets, isDev, nextSession, car, da, sg, rg, exchangeCalls>>

\* lines 269-274: the error handed to the caller
ClassifyError(msg) ==
    IF IsRateLimitMessage(msg)
    THEN Ret("handleAuthCallback", "Authentication rate limit exceeded", msg)
    ELSE Ret("handleAuthCallback", "Authentication failed", msg)

\* lines 267-277: the cleanup flush returns and the classified error is
\* thrown, or the flush throws and its own error is; finally releases the flag
CbCatchFlushed(i, o) ==
    /\ SameCall
    /\ cb[i].pc = "catchFlush"
    /\ IF o = "ok"
       THEN /\ disk' = flushPendingState(gs)
            /\ ret' = ClassifyError(cb[i].err)
       ELSE /\ ret' = Ret("handleAuthCallback", "Flush failed", cb[i].err)
            /\ UNCHANGED disk
    /\ processingAuthCallback' = ReleaseFlag(TRUE)
    /\ cb' = [cb EXCEPT ![i] = IdleCb]
    /\ NoBroadcast
    /\ UNCHANGED <<gs, secrets, isDev, nextSession, lastProcessedCode, authenticated,
                   car, da, sg, rg, exchangeCalls>>

(***************************************************************************)
(* handleDeauth                                                            *)
(***************************************************************************)

\* lines 299-306: delete the tokens, user info, user config and session keys
ClearLogin(g) == [ClearSession(g) EXCEPT !.vvUserInfo = "", !.vvUserConfig = ""]
\* Mutant: the user id is deleted with the tokens.
ClearTokens_AlsoUserId(sec) == [sec EXCEPT !.accessToken = "", !.refreshToken = "", !.userId = ""]

ClearTokens(sec) == [sec EXCEPT !.accessToken = "", !.refreshToken = ""]

\* lines 283-309: with a token, call logout; without, clear and call flush
DaStart ==
    /\ NewCall
    /\ da.pc = "idle"
    /\ IF secrets.accessToken # ""
       THEN /\ da' = [pc |-> "logout"]
            /\ UNCHANGED <<gs, secrets>>
       ELSE /\ da' = [pc |-> "flush"]
            /\ gs' = ClearLogin(gs)
            /\ secrets' = ClearTokens(secrets)
    /\ ret' = NoRet
    /\ NoBroadcast
    /\ UNCHANGED <<disk, isDev, nextSession, processingAuthCallback, lastProcessedCode,
                   authenticated, cb, car, sg, rg, exchangeCalls>>

\* lines 292-309: logout returns, or throws and is logged; clear; call flush
DaLoggedOut(o) ==
    /\ SameCall
    /\ da.pc = "logout"
    /\ da' = [pc |-> "flush"]
    /\ gs' = ClearLogin(gs)
    /\ secrets' = ClearTokens(secrets)
    /\ ret' = NoRet
    /\ NoBroadcast
    /\ UNCHANGED <<disk, isDev, nextSession, processingAuthCallback, lastProcessedCode,
                   authenticated, cb, car, sg, rg, exchangeCalls>>

\* lines 309-315: the flush returns: broadcast; or it throws
DaFlushed(o, d) ==
    /\ SameCall
    /\ da.pc = "flush"
    /\ da' = IdleDa
    /\ IF o = "ok"
       THEN /\ disk' = flushPendingState(gs)
            /\ authenticated' = FALSE
            /\ sendAuthStatusUpdate(gs, d)
            /\ ret' = Ret("handleDeauth", "ok", "")
       ELSE /\ ret' = Ret("handleDeauth", "Flush failed", "")
            /\ NoBroadcast
            /\ UNCHANGED <<disk, authenticated>>
    /\ UNCHANGED <<gs, secrets, isDev, nextSession, processingAuthCallback,
                   lastProcessedCode, cb, car, sg, rg, exchangeCalls>>

(***************************************************************************)
(* switchGroup                                                             *)
(***************************************************************************)

\* line 403: groupConfig.find((g) => g.type === groupType)
TargetGroupIndex(items, groupType) ==
    FindIndex({k \in 1..Len(items) : items[k].type = groupType})

\* Mutant: the items that were default stay default.
MarkDefault_KeepOld(items, groupType) ==
    [k \in 1..Len(items) |->
        [items[k] EXCEPT !.isDefault = (@ \/ items[k].type = groupType)]]

\* lines 413-416: every item keeps its fields, isDefault says whether its
\* type is the one asked for
MarkDefault(items, groupType) ==
    [k \in 1..Len(items) |-> [items[k] EXCEPT !.isDefault = (items[k].type = groupType)]]

\* Mutant: the API key of the target group is not tested.
SwitchGroupCheck_NoKeyTest(groupType) ==
    IF ~gs.vvGroupConfig.present THEN "Group config not found"
    ELSE IF TargetGroupIndex(gs.vvGroupConfig.items, groupType) = 0 THEN "Group not found"
    ELSE ""

\* lines 399-410: the error switchGroup throws before it writes, "" if none
SwitchGroupCheck(groupType) ==
    IF ~gs.vvGroupConfig.present THEN "Group config not found"
    ELSE IF TargetGroupIndex(gs.vvGroupConfig.items, groupType) = 0 THEN "Group not found"
    ELSE IF gs.vvGroupConfig.items[TargetGroupIndex(gs.vvGroupConfig.items, groupType)].apiKey = ""
         THEN "Group has no API key"
    ELSE ""

\* lines 395-420, 432-450: throw, or store the re-marked list and apply the
\* target group, up to the flush in applyGroupConfig
SgStart(groupType) ==
    /\ NewCall
    /\ sg.pc = "idle"
    /\ IF SwitchGroupCheck(groupType) # ""
       THEN /\ ret' = Ret("switchGroup", SwitchGroupCheck(groupType), groupType)
            /\ UNCHANGED <<gs, secrets, sg>>
       ELSE LET items == gs.vvGroupConfig.items
                target == items[TargetGroupIndex(items, groupType)]
            IN  /\ gs' = applyGroupSettings(
                            [gs EXCEPT !.vvGroupConfig =
                                SomeGroupConfig(MarkDefault(items, groupType))],
                            target)
                /\ secrets' = applyGroupSecrets(secrets, target)
                /\ sg' = [pc |-> "applyFlush", groupType |-> groupType]
                /\ ret' = NoRet
    /\ NoBroadcast
    /\ UNCHANGED <<disk, isDev, nextSession, processingAuthCallback, lastProcessedCode,
                   authenticated, cb, car, da, rg, exchangeCalls>>

\* lines 420-423, 450: the flush in applyGroupConfig returns: flush again;
\* or it throws
SgApplyFlushed(o) ==
    /\ SameCall
    /\ sg.pc = "applyFlush"
    /\ IF o = "ok"
       THEN /\ disk' = flushPendingState(gs)
            /\ sg' = [sg EXCEPT !.pc = "flush"]
            /\ ret' = NoRet
       ELSE /\ sg' = IdleSg
            /\ ret' = Ret("switchGroup", "Flush failed", "")
            /\ UNCHANGED disk
    /\ NoBroadcast
    /\ UNCHANGED <<gs, secrets, isDev, nextSession, processingAuthCallback,
                   lastProcessedCode, authenticated, cb, car, da, rg, exchangeCalls>>

\* lines 423-424: the flush returns: broadcast; or it throws
SgFlushed(o, d) ==
    /\ SameCall
    /\ sg.pc = "flush"
    /\ sg' = IdleSg
    /\ IF o = "ok"
       THEN /\ disk' = flushPendingState(gs)
            /\ sendAuthStatusUpdate(gs, d)
            /\ ret' = Ret("switchGroup", "ok", "")
       ELSE /\ ret' = Ret("switchGroup", "Flush failed", "")
            /\ NoBroadcast
            /\ UNCHANGED disk
    /\ UNCHANGED <<gs, secrets, isDev, nextSession, processingAuthCallback,
                   lastProcessedCode, authenticated, cb, car, da, rg, exchangeCalls>>

(***************************************************************************)
(* refreshGroupConfig                                                      *)
(***************************************************************************)

\* lines 456-466: nothing without a token and a user id; else call getGroupTokens
RgStart ==
    /\ NewCall
    /\ rg.pc = "idle"
    /\ IF secrets.accessToken = "" \/ secrets.userId = ""
       THEN /\ ret' = Ret("refreshGroupConfig", "undefined", "not logged in")
            /\ UNCHANGED rg
       ELSE /\ rg' = [rg EXCEPT !.pc = "fetch"]
            /\ ret' = NoRet
    /\ NoBroadcast
    /\ UNCHANGED <<gs, secrets, disk, isDev, nextSession, processingAuthCallback,
                   lastProcessedCode, authenticated, cb, car, da, sg, exchangeCalls>>

\* Mutant: a failed fetch stores an empty list.
RgFetched_StoresOnFailure(o, items) ==
    /\ SameCall
    /\ rg.pc = "fetch"
    /\ IF o = "ok"
       THEN /\ gs' = [gs EXCEPT !.vvGroupConfig = SomeGroupConfig(items)]
            /\ rg' = [pc |-> "flush", cfg |-> SomeGroupConfig(items)]
            /\ ret' = NoRet
       ELSE /\ rg' = IdleRg
            /\ ret' = Ret("refreshGroupConfig", "undefined", "fetch failed")
            /\ gs' = [gs EXCEPT !.vvGroupConfig = SomeGroupConfig(<<>>)]
    /\ NoBroadcast
    /\ UNCHANGED <<secrets, disk, isDev, nextSession, processingAuthCallback,
                   lastProcessedCode, authenticated, cb, car, da, sg, exchangeCalls>>

\* lines 466-473: the fetch returns: store the list, call flush; or it
\* throws, is logged, and nothing is returned
RgFetched(o, items) ==
    /\ SameCall
    /\ rg.pc = "fetch"
    /\ IF o = "ok"
       THEN /\ gs' = [gs EXCEPT !.vvGroupConfig = SomeGroupConfig(items)]
            /\ rg' = [pc |-> "flush", cfg |-> SomeGroupConfig(items)]
            /\ ret' = NoRet
       ELSE /\ rg' = IdleRg
            /\ ret' = Ret("refreshGroupConfig", "undefined", "fetch failed")
            /\ UNCHANGED gs
    /\ NoBroadcast
    /\ UNCHANGED <<secrets, disk, isDev, nextSession, processingAuthCallback,
                   lastProcessedCode, authenticated, cb, car, da, sg, exchangeCalls>>

\* lines 468-473: the flush returns and the list is returned; or it throws
\* inside the same try, is logged, and nothing is returned
RgFlushed(o) ==
    /\ SameCall
    /\ rg.pc = "flush"
    /\ rg' = IdleRg
    /\ IF o = "ok"
       THEN /\ disk' = flushPendingState(gs)
            /\ ret' = Ret("refreshGroupConfig", "ok", "")
       ELSE /\ ret' = Ret("refreshGroupConfig", "undefined", "flush failed")
            /\ UNCHANGED disk
    /\ NoBroadcast
    /\ UNCHANGED <<gs, secrets, isDev, nextSession, processingAuthCallback,
                   lastProcessedCode, authenticated, cb, car, da, sg, exchangeCalls>>

(***************************************************************************)
(* Specification                                                           *)
(***************************************************************************)

Next ==
    \/ \E s \in Sub, o \in DeliveryOutcomes : subscribeToAuthStatusUpdate(s, o)
    \/ \E s \in Sub : Unsubscribe(s)
    \/ \E s \in Sub : HandleReject(s)
    \/ CarStart
    \/ \E o \in IoOutcomes : CarFlushed(o)
    \/ \E o \in IoOutcomes : CarOpened(o)
    \/ \E c \in Codes, st \in SessionIds : CbDropped(c, st)
    \/ \E i \in Inv, c \in Codes, st \in SessionIds : CbStart(i, c, st)
    \/ \E i \in Inv, o \in IoOutcomes, u \in Users, m \in ProviderErrors :
            CbExchanged(i, o, u, m)
    \/ \E i \in Inv, o \in IoOutcomes, m \in ProviderErrors : CbUserInfo(i, o, m)
    \/ \E i \in Inv, o \in IoOutcomes : CbUserConfig(i, o)
    \/ \E i \in Inv, o \in IoOutcomes, items \in GroupResponses : CbGroupTokens(i, o, items)
    \/ \E i \in Inv, o \in IoOutcomes : CbApplyFlushed(i, o)
    \/ \E i \in Inv, o \in IoOutcomes : CbFlush1(i, o)
    \/ \E i \in Inv, o \in IoOutcomes, d \in BroadcastOutcomes : CbFlush2(i, o, d)
    \/ \E i \in Inv, o \in IoOutcomes : CbCatchFlushed(i, o)
    \/ DaStart
    \/ \E o \in IoOutcomes : DaLoggedOut(o)
    \/ \E o \in IoOutcomes, d \in BroadcastOutcomes : DaFlushed(o, d)
    \/ \E t \in GroupTypes : SgStart(t)
    \/ \E o \in IoOutcomes : SgApplyFlushed(o)
    \/ \E o \in IoOutcomes, d \in BroadcastOutcomes : SgFlushed(o, d)
    \/ RgStart
    \/ \E o \in IoOutcomes, items \in GroupResponses : RgFetched(o, items)
    \/ \E o \in IoOutcomes : RgFlushed(o)

Spec == Init /\ [][Next]_vars

\* Each await of a handleAuthCallback invocation eventually returns or throws.
CbContinue ==
    \E i \in Inv, o \in IoOutcomes :
        \/ \E u \in Users, m \in ProviderErrors : CbExchanged(i, o, u, m)
        \/ \E m \in ProviderErrors : CbUserInfo(i, o, m)
        \/ CbUserConfig(i, o)
        \/ \E items \in GroupResponses : CbGroupTokens(i, o, items)
        \/ CbApplyFlushed(i, o)
        \/ CbFlush1(i, o)
        \/ \E d \in BroadcastOutcomes : CbFlush2(i, o, d)
        \/ CbCatchFlushed(i, o)

FairSpec == Spec /\ WF_vars(CbContinue)

(***************************************************************************)
(* Config fetcher (src/unnamed/part_000)                                   *)
(***************************************************************************)

\* fetchRemoteConfig(), lines 84-106: the body of a status-200 response
\* that has one; null for any other response and for a rejected request
fetchRemoteConfig(o) ==
    IF o.kind = "ok"
    THEN [isNull |-> FALSE, anthropic |-> o.body.anthropic,
          apiKey |-> o.body.apiKey, baseUrl |-> o.body.baseUrl]
    ELSE NullConfig

\* resolveConfig(), lines 114-121: remoteConfig?.anthropic?.apiKey and
\* ?.baseUrl, undefined ("") when the config or its section is missing
resolveConfig(remoteConfig) ==
    [isNull |-> FALSE, anthropic |-> TRUE,
     apiKey |-> IF remoteConfig.isNull \/ ~remoteConfig.anthropic THEN "" ELSE remoteConfig.apiKey,
     baseUrl |-> IF remoteConfig.isNull \/ ~remoteConfig.anthropic THEN "" ELSE remoteConfig.baseUrl]

\* A call takes the first free slot.
FreeSlot(j) == ~cfg.fetching[j] /\ \A k \in FetchSlots : k < j => cfg.fetching[k]

\* getDynamicConfig(forceRefresh), lines 133-140: return the cache if there
\* is one and no refresh is forced; else call fetchRemoteConfig and wait
getDynamicConfig(j, forceRefresh) ==
    /\ FreeSlot(j)
    /\ IF ~cfg.cachedConfig.isNull /\ ~forceRefresh
       THEN cfg' = [cfg EXCEPT !.op = "getDynamicConfig", !.fetched = FALSE,
                               !.out = cfg.cachedConfig, !.calledSinceClear = TRUE]
       ELSE cfg' = [cfg EXCEPT !.op = "fetch", !.fetched = TRUE, !.out = NullConfig,
                               !.fetching[j] = TRUE, !.calledSinceClear = TRUE]
    /\ UNCHANGED <<serviceVars, hook>>

\* lines 140-145: the fetch is back: resolve, cache, return
FetchReturned(j, o) ==
    /\ cfg.fetching[j]
    /\ cfg' = [cfg EXCEPT !.cachedConfig = resolveConfig(fetchRemoteConfig(o)),
                          !.fetching[j] = FALSE,
                          !.op = "getDynamicConfig", !.fetched = FALSE,
                          !.out = resolveConfig(fetchRemoteConfig(o))]
    /\ UNCHANGED <<serviceVars, hook>>

\* getCachedConfig(), lines 156-158
getCachedConfig ==
    /\ cfg' = [cfg EXCEPT !.op = "getCachedConfig", !.fetched = FALSE, !.out = cfg.cachedConfig]
    /\ UNCHANGED <<serviceVars, hook>>

\* clearConfigCache(), lines 164-166
clearConfigCache ==
    /\ cfg' = [cfg EXCEPT !.cachedConfig = NullConfig, !.calledSinceClear = FALSE,
                          !.op = "clearConfigCache", !.fetched = FALSE, !.out = NullConfig]
    /\ UNCHANGED <<serviceVars, hook>>

ConfigNext ==
    \/ \E j \in FetchSlots, f \in BOOLEAN : getDynamicConfig(j, f)
    \/ \E j \in FetchSlots, o \in FetchOutcomes : FetchReturned(j, o)
    \/ getCachedConfig
    \/ clearConfigCache

ConfigSpec == Init /\ [][ConfigNext]_vars

(***************************************************************************)
(* useDebouncedInput                                                       *)
(*                                                                         *)
(* One step is one render with the effects it commits, one call of the     *)
(* returned setter with the render it causes, or one expiry of the         *)
(* debounce timer.  useDebounceEffect (@/utils/useDebounceEffect) restarts *)
(* its timer when a dependency changed, runs the latest effect function    *)
(* when the timer expires and cancels the timer on unmount.                *)
(***************************************************************************)

\* lines 19-23 and the effects of the first render: lines 26-32 find no
\* change, useDebounceEffect starts its timer
useDebouncedInput(initialValue) ==
    /\ ~hook.mounted
    /\ hook' = [mounted |-> TRUE, localValue |-> initialValue,
                lastExternalValue |-> initialValue, userChanged |-> FALSE,
                timer |-> TRUE, userSet |-> {}, op |-> "mount", saved |-> <<>>]
    /\ UNCHANGED <<serviceVars, cfg>>

\* lines 26-32: the parent renders the component with initialValue; if it
\* differs from the last external value it becomes the local value and the
\* user-changed mark is cleared; a changed local value restarts the timer
Rerender(initialValue) ==
    /\ hook.mounted
    /\ IF initialValue # hook.lastExternalValue
       THEN hook' = [hook EXCEPT !.lastExternalValue = initialValue,
                                 !.localValue = initialValue,
                                 !.userChanged = FALSE,
                                 !.timer = IF initialValue # hook.localValue THEN TRUE ELSE @,
                                 !.userSet = {},
                                 !.op = "render", !.saved = <<>>]
       ELSE hook' = [hook EXCEPT !.op = "render", !.saved = <<>>]
    /\ UNCHANGED <<serviceVars, cfg>>

\* lines 35-38: the returned setter: mark the edit, set the local value; a
\* changed local value renders again and restarts the timer
handleSetValue(value) ==
    /\ hook.mounted
    /\ hook' = [hook EXCEPT !.userChanged = TRUE,
                            !.localValue = value,
                            !.timer = IF value # hook.localValue THEN TRUE ELSE @,
                            !.userSet = @ \cup {value},
                            !.op = "set", !.saved = <<>>]
    /\ UNCHANGED <<serviceVars, cfg>>

\* Mutant: the debounced effect saves whenever the user has edited.
ShouldSave_IgnoresExternal(h) == h.userChanged

\* line 44: userChangedRef.current && localValue !== lastExternalValueRef.current
ShouldSave(h) == h.userChanged /\ h.localValue # h.lastExternalValue

\* lines 41-50: the debounce delay has elapsed: the effect runs once
DebounceElapsed ==
    /\ hook.mounted
    /\ hook.timer
    /\ hook' = [hook EXCEPT !.timer = FALSE, !.op = "timer",
                            !.saved = IF ShouldSave(hook) THEN <<hook.localValue>> ELSE <<>>]
    /\ UNCHANGED <<serviceVars, cfg>>

\* the component is removed: the timer is cancelled, state and refs are dropped
Unmount ==
    /\ hook.mounted
    /\ hook' = [HookUnmounted EXCEPT !.op = "unmount"]
    /\ UNCHANGED <<serviceVars, cfg>>

HookNext ==
    \/ \E v \in InputValues : useDebouncedInput(v)
    \/ \E v \in InputValues : Rerender(v)
    \/ \E v \in InputValues : handleSetValue(v)
    \/ DebounceElapsed
    \/ Unmount

HookSpec == Init /\ [][HookNext]_vars

\* A running timer expires.
HookFairSpec == HookSpec /\ WF_vars(DebounceElapsed)

(***************************************************************************)
(* Properties                                                              *)
(***************************************************************************)

\* The invocations past the guards and not yet finished.
Processing == {i \in Inv : cb[i].pc # "idle"}
\* handleAuthCallback has just thrown to its caller.
CbThrew == ret.op = "handleAuthCallback" /\ ret.result \notin {"ok", "dropped"}
\* A step in which invocation i throws to its caller.
CbThrows(i) == cb[i].pc = "catchFlush" /\ cb'[i].pc = "idle"
\* A step in which a status broadcast is made: a login, a logout or a group
\* switch completes.
BroadcastStep ==
    /\ ret'.op \in {"handleAuthCallback", "handleDeauth", "switchGroup"}
    /\ ret'.result = "ok"

\* C1 as claimed: exchangeCodeForToken is called at most once for any code,
\* whatever happens between the calls that carry it.
C1_ExchangeAtMostOncePerCode == \A c \in Codes : exchangeCalls[c] <= 1

\* C1 as amended: while a code is the last successfully processed one, a call
\* carrying it is a no-op: no invocation with that code starts processing and
\* exchangeCodeForToken is not called for it.
C1_LastCodeIsNoOp ==
    [][\A c \in Codes :
          lastProcessedCode = c =>
              /\ exchangeCalls'[c] = exchangeCalls[c]
              /\ \A i \in Inv : cb'[i].code = c => cb[i].code = c]_vars

\* C1 witness: a call carrying the last processed code was dropped after that
\* code had been exchanged once.
C1_Witness ==
    /\ ret.op = "handleAuthCallback" /\ ret.result = "dropped" /\ ret.cause = "duplicate"
    /\ lastProcessedCode \in Codes
    /\ exchangeCalls[lastProcessedCode] = 1

\* C2 as claimed: an invocation that finds a state other than the session's
\* throws the CSRF error to its caller; neither the step that finds the
\* mismatch nor the one that throws calls exchangeCodeForToken or writes a
\* secret.
C2_CsrfMismatchRaised ==
    [][\A i \in Inv :
          /\ (cb[i].pc = "idle" /\ cb'[i].err = "Invalid state parameter") =>
                /\ exchangeCalls' = exchangeCalls
                /\ secrets' = secrets
          /\ (CbThrows(i) /\ cb[i].err = "Invalid state parameter") =>
                /\ ret' = Ret("handleAuthCallback", "Authentication failed",
                              "Invalid state parameter")
                /\ exchangeCalls' = exchangeCalls
                /\ secrets' = secrets]_vars

\* C3 as claimed: when handleAuthCallback has thrown, neither session key is
\* in the cache.
C3_SessionAbsentOnError == CbThrew => gs.authState = 0 /\ gs.codeVerifier = 0

\* C3 as amended: the catch block deletes both keys, and when the error
\* reaches the caller the cache does not hold the session the invocation
\* read: the keys are absent or hold a newer session (the verifier of a
\* session carries the number of its state).
C3_OwnSessionAbsentOnError ==
    [][\A i \in Inv :
          /\ (cb[i].pc # "catchFlush" /\ cb'[i].pc = "catchFlush") =>
                gs'.authState = 0 /\ gs'.codeVerifier = 0
          /\ CbThrows(i) =>
                /\ gs'.authState = 0 \/ gs'.authState > cb[i].storedState
                /\ gs'.codeVerifier = 0 \/ gs'.codeVerifier > cb[i].storedState]_vars

\* C3 witness: an invocation that had read a session threw, and the keys are absent.
C3_Witness ==
    /\ CbThrew
    /\ ret.cause \in ProviderErrors
    /\ gs.authState = 0 /\ gs.codeVerifier = 0

\* C4 as claimed, for the login data: when handleDeauth has returned, no
\* access token, user info or user config is stored and the broadcast it
\* made carries no user.
C4_LoggedOutAfterDeauth ==
    (ret.op = "handleDeauth" /\ ret.result = "ok") =>
        /\ secrets.accessToken = ""
        /\ gs.vvUserInfo = ""
        /\ gs.vvUserConfig = ""
        /\ \A s \in Sub : outbox[s] \in {<<>>, <<"">>}

\* C5: at most one invocation is past the guards at any time and the flag
\* is set for as long as it is; a call that arrives meanwhile returns at
\* once: it starts no invocation, calls no provider, writes nothing, sends
\* nothing and raises nothing.
C5_OneInvocationProcessing ==
    /\ [](Cardinality(Processing) <= 1 /\ (Processing # {} => processingAuthCallback))
    /\ [][\A c \in Codes, st \in SessionIds :
            (/\ Processing # {}
             /\ CbDropped(c, st) \/ \E i \in Inv : CbStart(i, c, st)) =>
                /\ ret' = Ret("handleAuthCallback", "dropped", "processing")
                /\ outbox' = NoSends
                /\ UNCHANGED <<gs, secrets, disk, cb, exchangeCalls, processingAuthCallback,
                               lastProcessedCode, authenticated, subStatus>>]_vars

\* C5 witness: a call was dropped while another invocation was suspended at
\* the user-info fetch.
C5_Witness ==
    /\ ret.op = "handleAuthCallback" /\ ret.result = "dropped" /\ ret.cause = "processing"
    /\ \E i \in Inv : cb[i].pc = "userInfo"

\* C6: the flag is set only while an invocation is in flight, and once set
\* it is released again, whichever way the invocation ends.
C6_FlagReleased ==
    /\ [](processingAuthCallback => Processing # {})
    /\ (processingAuthCallback ~> ~processingAuthCallback)

\* C6 witness: the cleanup flush in the catch block failed and the flag is released.
C6_Witness ==
    /\ ret.op = "handleAuthCallback" /\ ret.result = "Flush failed"
    /\ ~processingAuthCallback

\* The least element of a non-empty set of numbers.
MinOf(S) == CHOOSE x \in S : \A y \in S : x <= y

\* The host settings are the ones applyGroupConfig writes for item g when
\* the base URL was url before.
HostSettingsOf(sec, g1, g, url) ==
    /\ sec.apiKey = g.apiKey
    /\ g1.planModeApiModelId = g.defaultModelId
    /\ g1.actModeApiModelId = g.defaultModelId
    /\ g1.anthropicBaseUrl = IF isDev THEN devBaseUrl
                             ELSE IF g.apiBaseUrl # "" THEN g.apiBaseUrl ELSE url

\* The host settings did not change in this step.
HostSettingsUnchanged ==
    /\ secrets'.apiKey = secrets.apiKey
    /\ gs'.planModeApiModelId = gs.planModeApiModelId
    /\ gs'.actModeApiModelId = gs.actModeApiModelId
    /\ gs'.anthropicBaseUrl = gs.anthropicBaseUrl

\* C7 as claimed: when a login whose group fetch returned a non-empty list
\* completes, the stored list has exactly one default item and the host's
\* API key and model ids are that item's.
C7_OneDefaultAfterLogin ==
    [][\A i \in Inv :
          (/\ cb[i].pc = "flush2"
           /\ ret'.op = "handleAuthCallback" /\ ret'.result = "ok"
           /\ cb[i].groupConfig.present /\ Len(cb[i].groupConfig.items) > 0) =>
              LET items == gs'.vvGroupConfig.items
                  D == {k \in 1..Len(items) : items[k].isDefault}
              IN  /\ Cardinality(D) = 1
                  /\ \A k \in D :
                        /\ secrets'.apiKey = items[k].apiKey
                        /\ gs'.planModeApiModelId = items[k].defaultModelId
                        /\ gs'.actModeApiModelId = items[k].defaultModelId]_vars

\* C7 as amended: when the group fetch of a login returns, the list is
\* stored as it came; if its first default item has an API key that item is
\* applied to the host, otherwise the host settings are not touched.
C7_FetchedListStoredDefaultApplied ==
    [][\A i \in Inv :
          (cb[i].pc = "groupTokens" /\ cb'[i].groupConfig.present) =>
              LET items == cb'[i].groupConfig.items
                  D == {k \in 1..Len(items) : items[k].isDefault}
              IN  /\ gs'.vvGroupConfig = cb'[i].groupConfig
                  /\ IF D # {} /\ items[MinOf(D)].apiKey # ""
                     THEN HostSettingsOf(secrets', gs', items[MinOf(D)], gs.anthropicBaseUrl)
                     ELSE HostSettingsUnchanged]_vars

\* C7 witness: a fetched list with two default items is stored, the first
\* of them has no key, and the login went on without applying a group.
C7_Witness ==
    \E i \in Inv :
        /\ cb[i].pc = "flush1"
        /\ cb[i].groupConfig.present
        /\ gs.vvGroupConfig = cb[i].groupConfig
        /\ Cardinality({k \in 1..Len(cb[i].groupConfig.items) :
                            cb[i].groupConfig.items[k].isDefault}) = 2
        /\ secrets.apiKey = ""

C9_FailedSwitchChangesNothing ==
    [][\A t \in GroupTypes :
          (SgStart(t) /\ gs.vvGroupConfig.present) =>
              LET items == gs.vvGroupConfig.items
                  T == {k \in 1..Len(items) : items[k].type = t}
              IN  (T = {} \/ items[MinOf(T)].apiKey = "") =>
                      /\ ret'.op = "switchGroup"
                      /\ ret'.result = IF T = {} THEN "Group not found"
                                       ELSE "Group has no API key"
                      /\ gs'.vvGroupConfig = gs.vvGroupConfig
                      /\ HostSettingsUnchanged
                      /\ outbox' = NoSends
                      /\ sg' = sg]_vars

\* C9 witness: switchGroup threw "not found" for a stored, non-empty list.
C9_Witness ==
    /\ ret.op = "switchGroup" /\ ret.result = "Group not found"
    /\ gs.vvGroupConfig.present /\ Len(gs.vvGroupConfig.items) > 0

\* C10 as claimed: every broadcast is sent to every subscription that was
\* made and not cancelled.
C10_SentUntilCancelled ==
    [][BroadcastStep =>
          \A s \in Sub : subStatus[s] \in {"active", "orphan", "removed"} =>
                            Len(outbox'[s]) = 1]_vars

\* C10 as amended: a subscription is sent the current status once when it
\* is made, then every broadcast, once each, until it is cancelled or
\* removed after a failed delivery, and nothing after that.
C10_SentUntilCancelledOrRemoved ==
    [][/\ \A s \in Sub : (subStatus[s] = "unused" /\ subStatus'[s] # "unused") =>
                            outbox'[s] = <<getInfo(gs)>>
       /\ BroadcastStep =>
             \A s \in Sub : outbox'[s] = IF subStatus[s] \in {"active", "orphan"}
                                         THEN <<getInfo(gs')>> ELSE <<>>
       /\ \A s \in Sub : subStatus[s] \in {"cancelled", "removed"} =>
                            outbox'[s] = <<>>]_vars

\* C10 witness: a broadcast was sent to the second subscription and not to
\* the first, which had been cancelled.
C10_Witness ==
    /\ ret.op = "handleDeauth" /\ ret.result = "ok"
    /\ subStatus[1] = "cancelled" /\ outbox[1] = <<>>
    /\ subStatus[2] = "active" /\ Len(outbox[2]) = 1

\* C11 as claimed: a subscriber for which a delivery attempt has failed is
\* out of the registry: after a subscribe whose first delivery threw, the
\* new subscriber is not in the set; when the rejection handler of a
\* broadcast delivery has run, its subscriber is not in the set; and a
\* subscriber out of the set is sent nothing.
C11_FailedDeliveryRemoves ==
    /\ []((ret.op = "subscribe" /\ ret.result = "StreamError") =>
              \A s \in Sub : outbox[s] # <<>> => s \notin ActiveSubs)
    /\ [][/\ \A s \in Sub : HandleReject(s) => s \notin ActiveSubs'
          /\ \A s \in Sub : s \notin ActiveSubs' => outbox'[s] = <<>>]_vars

\* C12: in every broadcast each subscription in the set is sent the status,
\* whatever the deliveries to the others do; only a subscription whose own
\* delivery failed leaves the set; the operation that broadcasts returns
\* normally.
C12_DeliveryIsolated ==
    [][/\ \A d \in BroadcastOutcomes :
             (\/ \E i \in Inv : CbFlush2(i, "ok", d)
              \/ DaFlushed("ok", d)
              \/ SgFlushed("ok", d)) =>
                 /\ ret'.result = "ok"
                 /\ \A s \in ActiveSubs : outbox'[s] = <<getInfo(gs')>>
                 /\ \A s \in Sub : d[s] # "throw" => subStatus'[s] = subStatus[s]
       /\ \A s \in Sub : HandleReject(s) =>
             \A r \in Sub \ {s} : subStatus'[r] = subStatus[r]]_vars

\* C12 witness: a broadcast in which the delivery to the first subscriber
\* threw was sent to the second, which stays subscribed, and the operation
\* returned normally.
C12_Witness ==
    /\ ret.op = "handleDeauth" /\ ret.result = "ok"
    /\ subStatus[1] = "removed" /\ Len(outbox[1]) = 1
    /\ subStatus[2] = "active" /\ Len(outbox[2]) = 1

\* C13 as claimed, last sentence: when createAuthRequest has returned its
\* URL, the state in the URL is the stored vv:authState.
C13_UrlStateIsStoredState ==
    (ret.op = "createAuthRequest" /\ ret.result = "ok") => ret.val = gs.authState

\* C13 as amended: the call writes the state and verifier it drew; the
\* browser is opened only when the flush has returned and both keys are
\* read back present, else the call throws without opening it; the URL
\* returned carries the state this call drew.
C13_OpenedAfterReadBack ==
    [][/\ (car.pc = "idle" /\ car'.pc = "flush") =>
             /\ car'.state = generateState
             /\ gs'.authState = car'.state
             /\ gs'.codeVerifier = generateCodeVerifier
       /\ (car.pc = "flush" /\ car'.pc # "flush") =>
             IF ret'.result = "FlushError"
             THEN car'.pc = "idle" /\ disk' = disk
             ELSE /\ disk' = flushPendingState(gs)
                  /\ IF gs.authState = 0 \/ gs.codeVerifier = 0
                     THEN car'.pc = "idle" /\ ret' = Ret("createAuthRequest", "SaveFailed", "")
                     ELSE car'.pc = "open" /\ car'.state = car.state
       /\ (car.pc # "flush" /\ car'.pc = "open") => car.pc = "open"
       /\ (car.pc = "open" /\ car'.pc = "idle" /\ ret'.result = "ok") =>
             ret'.val = car.state]_vars

\* C13 witness: the read-back found the session missing (a failing callback
\* had deleted it during the flush) and the call threw without opening.
C13_Witness ==
    /\ ret = Ret("createAuthRequest", "SaveFailed", "")
    /\ car.pc = "idle"
    /\ gs.authState = 0

\* An invocation whose token exchange and user-info fetch both succeeded
\* ends in this step (the error it may carry is then a flush's).
CbEndsAfterUserInfo(i) ==
    /\ cb[i].pc \in {"flush2", "catchFlush"}
    /\ cb'[i].pc = "idle"
    /\ cb[i].err \in {"", "Flush failed"}

\* C14 as claimed: an invocation that passed the session checks and whose
\* token exchange and user-info fetch succeeded ends without error, with the
\* exchanged token and user id stored, the user info stored, its code
\* recorded and the user broadcast to every subscription in the set.
C14_LoginCompletes ==
    [][\A i \in Inv :
          CbEndsAfterUserInfo(i) =>
              /\ ret' = Ret("handleAuthCallback", "ok", "")
              /\ secrets'.accessToken = AccessTokenOf(cb[i].user)
              /\ secrets'.userId = UserIdOf(cb[i].user)
              /\ gs'.vvUserInfo = cb[i].user
              /\ lastProcessedCode' = cb[i].code
              /\ \A s \in ActiveSubs : outbox'[s] = <<cb[i].user>>]_vars

\* C14 as amended: the token and user id are stored when the exchange
\* returns and the user info when its fetch returns; from there only a
\* failing flush (lines 250, 255) makes the call throw; when both flushes
\* return the call returns normally, records its code, sets the
\* authenticated flag and sends the stored status to every subscription in
\* the set; the access token and the user info are then the exchanged ones
\* unless a handleDeauth deleted them while the call was suspended.
C14_LoginCompletesIfFlushed ==
    [][\A i \in Inv :
          /\ (cb[i].pc = "exchange" /\ cb'[i].pc = "userInfo") =>
                /\ secrets'.accessToken = AccessTokenOf(cb'[i].user)
                /\ secrets'.userId = UserIdOf(cb'[i].user)
          /\ (cb[i].pc = "userInfo" /\ cb'[i].pc = "userConfig") =>
                gs'.vvUserInfo = cb[i].user
          /\ cb[i].pc \in {"userConfig", "groupTokens", "applyFlush"} =>
                cb'[i].pc \notin {"idle", "catchFlush"}
          /\ (cb[i].pc \in {"flush1", "flush2"} /\ cb'[i].pc = "catchFlush") =>
                cb'[i].err = "Flush failed" /\ disk' = disk
          /\ (cb[i].pc = "flush2" /\ cb'[i].pc = "idle") =>
                /\ ret' = Ret("handleAuthCallback", "ok", "")
                /\ lastProcessedCode' = cb[i].code
                /\ authenticated'
                /\ secrets'.userId = UserIdOf(cb[i].user)
                /\ secrets'.accessToken \in {AccessTokenOf(cb[i].user), ""}
                /\ gs'.vvUserInfo \in {cb[i].user, ""}
                /\ \A s \in ActiveSubs : outbox'[s] = <<gs'.vvUserInfo>>]_vars

\* C14 witness: a login completed and its user was sent to a subscriber.
C14_Witness ==
    /\ ret = Ret("handleAuthCallback", "ok", "")
    /\ lastProcessedCode = "c1"
    /\ secrets.accessToken = AccessTokenOf("u1") /\ secrets.userId = UserIdOf("u1")
    /\ gs.vvUserInfo = "u1"
    /\ subStatus[1] = "active" /\ outbox[1] = <<"u1">>

\* An invocation ends in this step, by returning or by throwing.
CbEnds(i) == cb[i].pc \in {"flush2", "catchFlush"} /\ cb'[i].pc = "idle"

\* C15 as claimed: when an invocation that read a session ends, neither the
\* cache nor the extension context holds that session any more.
C15_SessionConsumed ==
    [][\A i \in Inv :
          (CbEnds(i) /\ cb[i].storedState # 0) =>
              /\ gs'.authState # cb[i].storedState
              /\ gs'.codeVerifier # cb[i].storedState
              /\ disk'.authState # cb[i].storedState
              /\ disk'.codeVerifier # cb[i].storedState]_vars

\* C15 as amended: when an invocation that read a session ends, the cache
\* does not hold that session, and the extension context does not either
\* unless the last flush threw; a callback fails as state-not-found exactly
\* when the state is missing from both read paths, and then
\* exchangeCodeForToken is not called.
C15_SessionConsumedIfFlushed ==
    [][\A i \in Inv :
          /\ (CbEnds(i) /\ cb[i].storedState # 0) =>
                /\ gs'.authState # cb[i].storedState
                /\ gs'.codeVerifier # cb[i].storedState
                /\ ret'.result # "Flush failed" =>
                      /\ disk'.authState # cb[i].storedState
                      /\ disk'.codeVerifier # cb[i].storedState
          /\ (cb[i].pc = "idle" /\ cb'[i].pc # "idle") =>
                /\ (cb'[i].err = "Authentication state not found") <=>
                        (gs.authState = 0 /\ disk.authState = 0)
                /\ cb'[i].err = "Authentication state not found" =>
                        exchangeCalls' = exchangeCalls]_vars

\* C15 witness: after the login with code c1 consumed session 1, a callback
\* with code c2 and state 1 fails as state-not-found.
C15_Witness ==
    \E i \in Inv :
        /\ cb[i].pc = "catchFlush"
        /\ cb[i].err = "Authentication state not found"
        /\ cb[i].code = "c2" /\ cb[i].state = 1
        /\ lastProcessedCode = "c1"
        /\ exchangeCalls["c2"] = 0

\* C16 as claimed, last part: a refreshGroupConfig whose fetch succeeded
\* returns the fetched list.
C16_RefreshReturnsFetched ==
    [][(rg.pc = "flush" /\ rg'.pc = "idle") => ret'.result = "ok"]_vars

\* C16 as amended: refreshGroupConfig never throws.  Without a token or a
\* user id it returns nothing, calls no provider and leaves the list; when
\* the fetch fails it returns nothing and leaves the list; when the fetch
\* succeeds it stores the fetched list and flushes, and returns the fetched
\* list (result "ok" stands for `return groupConfig`, held in rg.cfg) if
\* the flush returns, nothing if the flush throws.
C16_RefreshNeverThrows ==
    [][/\ ret'.op = "refreshGroupConfig" => ret'.result \in {"ok", "undefined"}
       /\ (rg.pc = "idle" /\ calls' # calls /\ ret'.op = "refreshGroupConfig") =>
             /\ secrets.accessToken = "" \/ secrets.userId = ""
             /\ ret'.result = "undefined"
             /\ rg' = rg /\ gs' = gs /\ disk' = disk
       /\ (rg.pc = "idle" /\ rg'.pc = "fetch") =>
             /\ secrets.accessToken # "" /\ secrets.userId # ""
             /\ gs' = gs
       /\ (rg.pc = "fetch" /\ rg'.pc = "idle") =>
             /\ ret' = Ret("refreshGroupConfig", "undefined", "fetch failed")
             /\ gs' = gs /\ disk' = disk
       /\ (rg.pc = "fetch" /\ rg'.pc = "flush") =>
             /\ rg'.cfg.present
             /\ gs' = [gs EXCEPT !.vvGroupConfig = rg'.cfg]
       /\ (rg.pc = "flush" /\ rg'.pc = "idle") =>
             /\ gs' = gs
             /\ IF ret'.result = "ok"
                THEN disk' = flushPendingState(gs)
                ELSE ret' = Ret("refreshGroupConfig", "undefined", "flush failed")
                     /\ disk' = disk]_vars

\* C16 witness: a refresh made while logged in, whose fetch failed,
\* returned nothing and the stored list is still there.
C16_Witness ==
    /\ ret = Ret("refreshGroupConfig", "undefined", "fetch failed")
    /\ secrets.accessToken # ""
    /\ gs.vvGroupConfig.present /\ Len(gs.vvGroupConfig.items) = 2

C18_EveryErrorClassified ==
    CbThrew =>
        /\ ret.result \in {"Authentication rate limit exceeded", "Authentication failed"}
        /\ (ret.result = "Authentication rate limit exceeded") <=> (ret.cause = "429 Too Many Requests")

\* C19 as claimed: when an invocation throws, no token obtained by it is
\* stored: if its exchange had succeeded, the exchanged access token is not
\* in the secrets, and if no login has ever completed (every attempt so far
\* failed, so the secrets are still the initial ones) isAuthenticated is
\* false.
C19_FailedLoginLeavesNoToken ==
    [][\A i \in Inv :
          CbThrows(i) =>
              /\ cb[i].user # "" => secrets'.accessToken # AccessTokenOf(cb[i].user)
              /\ lastProcessedCode' = "" =>
                    (~isAuthenticated(secrets') /\ secrets'.userId = "")]_vars

\* C20 as claimed: no step of an invocation deletes or replaces a session
\* written after the invocation read its own (session numbers grow, so such
\* a session has a greater number than the one the invocation read).
C20_NewerSessionKept ==
    [][\A i \in Inv :
          (/\ cb[i].pc # "idle"
           /\ cb'[i] # cb[i]
           /\ gs.authState > cb[i].storedState) =>
              /\ gs'.authState = gs.authState
              /\ gs'.codeVerifier = gs.codeVerifier]_vars

\* No operation is suspended at an await.
Quiescent ==
    /\ \A i \in Inv : cb[i].pc = "idle"
    /\ car.pc = "idle" /\ da.pc = "idle" /\ sg.pc = "idle" /\ rg.pc = "idle"

\* C21 as claimed, once a login has completed and for a stored list with
\* exactly one default item that has an API key: whenever no operation is in
\* flight, the host's API key and model ids are that item's, and so is the
\* base URL when the item has one and the development override is off.
C21_DefaultItemIsApplied ==
    (Quiescent /\ lastProcessedCode # "" /\ gs.vvGroupConfig.present) =>
        LET items == gs.vvGroupConfig.items
            D == {k \in 1..Len(items) : items[k].isDefault}
        IN  (Cardinality(D) = 1 /\ items[MinOf(D)].apiKey # "") =>
                /\ secrets.apiKey = items[MinOf(D)].apiKey
                /\ gs.planModeApiModelId = items[MinOf(D)].defaultModelId
                /\ gs.actModeApiModelId = items[MinOf(D)].defaultModelId
                /\ (~isDev /\ items[MinOf(D)].apiBaseUrl # "") =>
                        gs.anthropicBaseUrl = items[MinOf(D)].apiBaseUrl

\* The service after one complete login and nothing else: createAuthRequest,
\* then handleAuthCallback("c1", 1) for account "u1" with every fetch and
\* flush succeeding and the group list with default group "a" applied.
LoggedIn ==
    /\ gs = [authState |-> 0, codeVerifier |-> 0, vvUserInfo |-> "u1", vvUserConfig |-> "u1",
             vvGroupConfig |-> SomeGroupConfig(
                 <<GroupItem("a", "ka", "ma", "ua", TRUE), GroupItem("b", "kb", "mb", "", FALSE)>>),
             planModeApiModelId |-> "ma", actModeApiModelId |-> "ma",
             anthropicBaseUrl |-> IF isDev THEN devBaseUrl ELSE "ua"]
    /\ secrets = [accessToken |-> AccessTokenOf("u1"), userId |-> UserIdOf("u1"),
                  refreshToken |-> "", apiKey |-> "ka"]
    /\ disk = [authState |-> 0, codeVerifier |-> 0]
    /\ nextSession = 2
    /\ processingAuthCallback = FALSE
    /\ lastProcessedCode = "c1"
    /\ authenticated = TRUE
    /\ subStatus = [s \in Sub |-> "unused"]
    /\ pendingReject = {}
    /\ cb = [i \in Inv |-> IdleCb]
    /\ car = IdleCar
    /\ da = IdleDa
    /\ sg = IdleSg
    /\ rg = IdleRg
    /\ exchangeCalls = [c \in Codes |-> IF c = "c1" THEN 1 ELSE 0]
    /\ ret = Ret("handleAuthCallback", "ok", "")
    /\ outbox = NoSends
    /\ cfg = ConfigInit
    /\ hook = HookUnmounted

\* The calls explored from a logged-in service.
LoggedInInit ==
    /\ isDev \in BOOLEAN
    /\ calls = 0
    /\ LoggedIn

LoggedInSpec == LoggedInInit /\ [][Next]_vars

\* C22: a handleAuthCallback call that arrives while the flag is set, or
\* that carries the last processed code, returns at once as dropped: session
\* keys (cache and store), secrets, user info, group config, host settings,
\* the flag, the last processed code, the invocations and the subscriber
\* registry are unchanged, no provider is called and nothing is broadcast;
\* no step of handleDeauth changes the last processed code, so the same
\* holds for a call that carries it after a logout.
C22_DroppedCallChangesNothing ==
    [][/\ \A c \in Codes, st \in SessionIds :
            (/\ processingAuthCallback \/ lastProcessedCode = c
             /\ CbDropped(c, st) \/ \E i \in Inv : CbStart(i, c, st)) =>
                /\ ret'.op = "handleAuthCallback" /\ ret'.result = "dropped"
                /\ outbox' = NoSends
                /\ UNCHANGED <<gs, secrets, disk, processingAuthCallback, lastProcessedCode,
                               authenticated, cb, exchangeCalls, subStatus, pendingReject>>
       /\ da' # da => lastProcessedCode' = lastProcessedCode]_vars

\* C22 witness: after a login and a complete logout, a call carrying the code
\* of that login was dropped and the logged-out state is as the logout left it.
C22_Witness ==
    /\ ret = Ret("handleAuthCallback", "dropped", "duplicate")
    /\ lastProcessedCode = "c1"
    /\ secrets.accessToken = "" /\ gs.vvUserInfo = ""
    /\ ~authenticated
    /\ secrets.userId = UserIdOf("u1")

\* A step of handleDeauth.
DaStep == da' # da

\* What handleDeauth does not clear, apart from the subscriber registry.
DeauthFrame ==
    <<secrets.userId, secrets.apiKey, gs.vvGroupConfig, gs.planModeApiModelId,
      gs.actModeApiModelId, gs.anthropicBaseUrl, lastProcessedCode>>

C24_FirstCallAfterClearFetches ==
    [][\A j \in FetchSlots, f \in BOOLEAN :
          (getDynamicConfig(j, f) /\ (f \/ ~cfg.calledSinceClear)) => cfg'.fetched]_vars

\* C25 as claimed, for the save: when the debounce delay elapses while the
\* local value is one the user set since the last external change, that
\* value is passed to onChange.
C25_UserValueSavedAtExpiry ==
    [][(DebounceElapsed /\ hook.userChanged) => hook'.saved = <<hook.localValue>>]_vars

\* C25 as amended: onChange is invoked only when the debounce delay elapses,
\* and only with the local value, which the user then has set through the
\* setter since the last external change and which differs from the last
\* external value; a render with an initial value other than the last
\* external one makes it the local value and clears the user-changed mark;
\* and while the component stays mounted, a value the user set that differs
\* from the last external value is passed to onChange once the delay elapses,
\* unless a user edit to another value or an external change comes first.
C25_UserValueOtherThanExternalSaved ==
    /\ [][/\ hook'.saved # <<>> =>
               /\ hook.mounted /\ hook.timer /\ ~hook'.timer
               /\ hook'.saved = <<hook.localValue>>
               /\ hook.userChanged
               /\ hook.localValue \in hook.userSet
               /\ hook.localValue # hook.lastExternalValue
          /\ \A p \in InputValues :
                (Rerender(p) /\ p # hook.lastExternalValue) =>
                    /\ hook'.localValue = p /\ hook'.lastExternalValue = p
                    /\ ~hook'.userChanged
                    /\ hook'.saved = <<>>
          /\ \A v \in InputValues :
                (handleSetValue(v) /\ v # hook.localValue) =>
                    /\ hook'.localValue = v /\ hook'.userChanged /\ hook'.timer
                    /\ hook'.lastExternalValue = hook.lastExternalValue]_vars
    /\ \A v \in InputValues :
          (hook.mounted /\ hook.timer /\ hook.userChanged
                /\ hook.localValue = v /\ hook.lastExternalValue # v)
            ~> (\/ hook.saved = <<v>>
                \/ ~hook.mounted
                \/ hook.localValue # v
                \/ ~hook.userChanged)

\* C25 witness: the user replaced one edit by another, the delay elapsed and
\* the later value was passed to onChange; the external value is still the
\* one of the mount.
C25_Witness ==
    /\ hook.op = "timer"
    /\ hook.saved = <<"v2">>
    /\ hook.userSet = {"v1", "v2"}
    /\ hook.lastExternalValue = ""

====
